---- MODULE Spec2Model ----
\* A model of functional-sample.js: the rule factory `verify`, the pipeline
\* verifyPassword, validateRules, the verifier builders buildPasswordVerifier
\* and buidPasswordVerifier and the helper errorSafe.
\*
\* JavaScript values are tagged records:
\*   [t |-> "null"], [t |-> "undefined"], [t |-> "number", n |-> 42],
\*   [t |-> "boolean", b |-> TRUE], [t |-> "string", s |-> <<"a", "b">>],
\*   [t |-> "array", items |-> <<...>>], [t |-> "error", name, message],
\*   [t |-> "rule", criteria, reason]   (the closure verify returns),
\*   [t |-> "verifier", builder]        (the closure a builder returns).
\* The outcome of evaluating an expression is a normal completion carrying a
\* value or an abrupt completion carrying the thrown error.
EXTENDS Integers, Sequences, FiniteSets

VARIABLES rules, verifier, last

vars == <<rules, verifier, last>>

-----------------------------------------------------------------------------
\* Bounds of the model.

\* Longest array of rules the caller assembles.
MaxRules == 2

\* Longest prefix of the alphabet used as an input string.
MaxLen == 7

-----------------------------------------------------------------------------
\* JavaScript values and completions.

Null == [t |-> "null"]

Undefined == [t |-> "undefined"]

Num(n) == [t |-> "number", n |-> n]

Bool(b) == [t |-> "boolean", b |-> b]

Str(s) == [t |-> "string", s |-> s]

Arr(items) == [t |-> "array", items |-> items]

Error(name, message) == [t |-> "error", name |-> name, message |-> message]

Return(v) == [kind |-> "return", value |-> v]

Throw(e) == [kind |-> "throw", error |-> e]

\* typeof v
TypeOf(v) ==
    CASE v.t = "null" -> "object"
      [] v.t = "array" -> "object"
      [] v.t = "error" -> "object"
      [] v.t = "rule" -> "function"
      [] v.t = "verifier" -> "function"
      [] OTHER -> v.t

\* ToBoolean(v), the test of `?:`, `&&` and `!`
Truthy(v) ==
    CASE v.t = "null" -> FALSE
      [] v.t = "undefined" -> FALSE
      [] v.t = "boolean" -> v.b
      [] v.t = "string" -> Len(v.s) > 0
      [] v.t = "number" -> v.n /= 0
      [] OTHER -> TRUE

UpperChars ==
    <<"A", "B", "C", "D", "E", "F", "G", "H", "I", "J", "K", "L", "M",
      "N", "O", "P", "Q", "R", "S", "T", "U", "V", "W", "X", "Y", "Z">>

LowerChars ==
    <<"a", "b", "c", "d", "e", "f", "g", "h", "i", "j", "k", "l", "m",
      "n", "o", "p", "q", "r", "s", "t", "u", "v", "w", "x", "y", "z">>

ToLowerChar(c) ==
    IF \E i \in 1..Len(UpperChars) : UpperChars[i] = c
    THEN LowerChars[CHOOSE i \in 1..Len(UpperChars) : UpperChars[i] = c]
    ELSE c

\* String.prototype.toLowerCase on the characters of a string
toLowerCase(s) == [i \in 1..Len(s) |-> ToLowerChar(s[i])]

\* The TypeError of reading property `prop` of null or undefined.
CannotRead(prop, v) ==
    Throw(Error("TypeError", <<"Cannot read property", prop, "of", v.t>>))

\* The TypeError of calling a value that is not a function.
NotAFunction(name) ==
    Throw(Error("TypeError", <<name, "is not a function">>))

-----------------------------------------------------------------------------
\* The string literals of the source.

MUST_ENTER ==
    Str(<<"Y", "o", "u", " ", "m", "u", "s", "t", " ", "e", "n", "t", "e",
          "r", " ", "a", " ", "p", "a", "s", "s", "w", "o", "r", "d", "!">>)

MIN_LENGTH ==
    Str(<<"M", "i", "n", "i", "m", "u", "m", " ", "l", "e", "n", "g", "t",
          "h", " ", "i", "s", " ", "s", "i", "x", " ", "c", "h", "a", "r",
          "a", "c", "t", "e", "r", "s">>)

MUST_UPPER ==
    Str(<<"M", "u", "s", "t", " ", "c", "o", "n", "t", "a", "i", "n", " ",
          "a", "n", " ", "u", "p", "p", "e", "r", "c", "a", "s", "e", " ",
          "c", "h", "a", "r", "a", "c", "t", "e", "r">>)

VERIFICATION_FAILED ==
    Str(<<"V", "e", "r", "i", "f", "i", "c", "a", "t", "i", "o", "n", " ",
          "f", "a", "i", "l", "e", "d">>)

P_SSW0RD == Str(<<"P", "@", "s", "s", "w", "0", "r", "d">>)

Abcdef == Str(<<"A", "b", "c", "d", "e", "f">>)

EmptyString == Str(<<>>)

-----------------------------------------------------------------------------
\* The criteria of the source's rules, by name.

Criteria == {"nonEmpty", "minLength", "uppercase"}

\* criteria(input): the completion of the named arrow function on input.
ApplyCriteria(criteria, input) ==
    CASE criteria = "nonEmpty" ->
            \* input => input.length > 0
            IF input.t \in {"null", "undefined"}
            THEN CannotRead("length", input)
            ELSE IF input.t = "string"
                 THEN Return(Bool(Len(input.s) > 0))
                 ELSE Return(Bool(FALSE))
      [] criteria = "minLength" ->
            \* input => input && input.length > 6
            IF ~Truthy(input)
            THEN Return(input)
            ELSE IF input.t = "string"
                 THEN Return(Bool(Len(input.s) > 6))
                 ELSE Return(Bool(FALSE))
      [] criteria = "uppercase" ->
            \* input => input.toLowerCase() !== input
            IF input.t \in {"null", "undefined"}
            THEN CannotRead("toLowerCase", input)
            ELSE IF input.t = "string"
                 THEN Return(Bool(toLowerCase(input.s) /= input.s))
                 ELSE NotAFunction("input.toLowerCase")

\* verify(criteria, reason): the rule closure over its two arguments.
verify(criteria, reason) ==
    [t |-> "rule", criteria |-> criteria, reason |-> reason]

\* Mutant of ApplyRule: the branches of the conditional swapped.
ApplyRule_inverted(rule, input) ==
    LET c == ApplyCriteria(rule.criteria, input)
    IN  IF c.kind = "throw"
        THEN c
        ELSE IF Truthy(c.value)
             THEN Return([passed |-> FALSE, reason |-> rule.reason])
             ELSE Return([passed |-> TRUE])

\* Mutant of ApplyRule: the Failed verdict loses the reason it was given.
ApplyRule_noReason(rule, input) ==
    LET c == ApplyCriteria(rule.criteria, input)
    IN  IF c.kind = "throw"
        THEN c
        ELSE IF Truthy(c.value)
             THEN Return([passed |-> TRUE])
             ELSE Return([passed |-> FALSE, reason |-> Undefined])

\* The body of the closure verify returns, applied to input.
ApplyRule(rule, input) ==
    LET c == ApplyCriteria(rule.criteria, input)
    IN  IF c.kind = "throw"
        THEN c
        ELSE IF Truthy(c.value)
             THEN Return([passed |-> TRUE])
             ELSE Return([passed |-> FALSE, reason |-> rule.reason])

\* f(arg) for a value f of the model: a rule closure runs its body, any
\* other value is not callable; name is the callee's name in the message.
Call(f, arg, name) ==
    IF f.t = "rule" THEN ApplyRule(f, arg) ELSE NotAFunction(name)

-----------------------------------------------------------------------------
\* The pipeline and the builders.

\* rules.map(rule => rule(input)): the verdicts in rule order, or the first
\* abrupt completion of a rule call.
RECURSIVE MapRules(_, _)
MapRules(rs, input) ==
    IF rs = <<>>
    THEN Return(<<>>)
    ELSE LET h == Call(Head(rs), input, "rule")
         IN  IF h.kind = "throw"
             THEN h
             ELSE LET rest == MapRules(Tail(rs), input)
                  IN  IF rest.kind = "throw"
                      THEN rest
                      ELSE Return(<<h.value>> \o rest.value)

\* .filter(result => !result.passed)
FilterFailed(results) == SelectSeq(results, LAMBDA result : ~result.passed)

\* Mutant of MapReasons: the reasons in reverse order.
MapReasons_reversed(faileds) ==
    [i \in 1..Len(faileds) |-> faileds[Len(faileds) + 1 - i].reason]

\* .map(failed => failed.reason)
MapReasons(faileds) == [i \in 1..Len(faileds) |-> faileds[i].reason]

\* rules.map(...).filter(...).map(...): the array of reasons, or the abrupt
\* completion of the first map.
Pipeline(rs, input) ==
    LET results == MapRules(rs, input)
    IN  IF results.kind = "throw"
        THEN results
        ELSE Return(Arr(MapReasons(FilterFailed(results.value))))

\* function verifyPassword(rules, input)
verifyPassword(rs, input) == Pipeline(rs, input)

\* Mutant of validateRules: `every` in place of `some`.
validateRules_every(rs) ==
    IF \A i \in 1..Len(rs) : TypeOf(rs[i]) /= "function"
    THEN Throw(Error("Error", <<"Rules must be a function">>))
    ELSE Return(Undefined)

\* function validateRules(rules)
validateRules(rs) ==
    IF \E i \in 1..Len(rs) : TypeOf(rs[i]) /= "function"
    THEN Throw(Error("Error", <<"Rules must be a function">>))
    ELSE Return(Undefined)

\* function errorSafe(func, mapper): the try block calls func and drops its
\* value; the catch block returns mapper(err), or throws what that call
\* throws; falling off the end of the function returns undefined.
errorSafe(func, mapper) ==
    LET tried == Call(func, Undefined, "func")
    IN  IF tried.kind = "throw"
        THEN Call(mapper, tried.error, "mapper")
        ELSE Return(Undefined)

\* function buildPasswordVerifier(rules): the closure keeps the binding
\* `rules`, a reference to the caller's array.
buildPasswordVerifier(rs) ==
    LET valid == validateRules(rs)
    IN  IF valid.kind = "throw"
        THEN valid
        ELSE Return([t |-> "verifier", builder |-> "buildPasswordVerifier"])

\* function buidPasswordVerifier(rules)
buidPasswordVerifier(rs) ==
    LET valid == validateRules(rs)
    IN  IF valid.kind = "throw"
        THEN valid
        ELSE Return([t |-> "verifier", builder |-> "buidPasswordVerifier"])

\* The body of the closure buildPasswordVerifier returns; rs is the content
\* of the captured array at the time of the call.
BuildVerifierBody(rs, input) == Pipeline(rs, input)

\* The body of the closure buidPasswordVerifier returns: `strategy` is the
\* value of the pipeline, computed before errorSafe is entered.
BuidVerifierBody(rs, input) ==
    LET strategy == Pipeline(rs, input)
    IN  IF strategy.kind = "throw"
        THEN strategy
        ELSE errorSafe(strategy.value, Arr(<<VERIFICATION_FAILED>>))

\* v(input) for a verifier closure v over the array whose content is rs.
VerifierBody(v, rs, input) ==
    IF v.builder = "buildPasswordVerifier"
    THEN BuildVerifierBody(rs, input)
    ELSE BuidVerifierBody(rs, input)

-----------------------------------------------------------------------------
\* The inputs of the model.

Alphabet == <<"b", "c", "d", "e", "f", "g", "h", "i", "j", "k", "l", "m">>

\* "", "A", "Ab", "Abc", ... and "", "a", "ab", "abc", ... up to MaxLen.
PrefixStrings ==
    {Str(<<>>)} \cup
    {Str(<<first>> \o SubSeq(Alphabet, 1, n)) :
        first \in {"A", "a"}, n \in 0..(MaxLen - 1)}

Inputs == {Null, Undefined, Num(42), P_SSW0RD} \cup PrefixStrings

\* The reason arguments given to verify: the three of the source, the empty
\* string and a missing argument.
ReasonArgs == {MUST_ENTER, MIN_LENGTH, MUST_UPPER, EmptyString, Undefined}

\* The rules the caller puts in its array.
RuleEntries ==
    {verify("nonEmpty", MUST_ENTER),
     verify("minLength", MIN_LENGTH),
     verify("uppercase", MUST_UPPER),
     verify("uppercase", EmptyString),
     verify("nonEmpty", Undefined)}

\* The elements of the caller's array: rules, and the string put in the
\* array by mistake.
Entries == RuleEntries \cup {MUST_UPPER}

-----------------------------------------------------------------------------
\* The state machine. `rules` is the content of the caller's array object,
\* `verifier` the closure last returned by a builder (undefined before), and
\* `last` the record of the last operation with its completion.

Init ==
    /\ rules = <<>>
    /\ verifier = Undefined
    /\ last = [op |-> "init"]

\* The caller appends an element to its array.
Push(e) ==
    /\ Len(rules) < MaxRules
    /\ rules' = Append(rules, e)
    /\ last' = [op |-> "push"]
    /\ UNCHANGED verifier

\* The caller removes the last element of its array.
Pop ==
    /\ Len(rules) > 0
    /\ rules' = SubSeq(rules, 1, Len(rules) - 1)
    /\ last' = [op |-> "pop"]
    /\ UNCHANGED verifier

\* The caller replaces an element of its array.
SetAt(i, e) ==
    /\ i \in 1..Len(rules)
    /\ rules[i] /= e
    /\ rules' = [rules EXCEPT ![i] = e]
    /\ last' = [op |-> "set"]
    /\ UNCHANGED verifier

\* verifyPassword(rules, input)
CallVerifyPassword(input) ==
    /\ last' = [op |-> "verifyPassword", input |-> input,
                outcome |-> verifyPassword(rules, input)]
    /\ UNCHANGED <<rules, verifier>>

\* const passwordVerifier = buildPasswordVerifier(rules): the binding is
\* made only when the call returns.
CallBuild ==
    LET outcome == buildPasswordVerifier(rules)
    IN  /\ verifier' = IF outcome.kind = "return" THEN outcome.value ELSE verifier
        /\ last' = [op |-> "build", builder |-> "buildPasswordVerifier",
                    outcome |-> outcome]
        /\ UNCHANGED rules

\* const passwordVerifier = buidPasswordVerifier(rules)
CallBuid ==
    LET outcome == buidPasswordVerifier(rules)
    IN  /\ verifier' = IF outcome.kind = "return" THEN outcome.value ELSE verifier
        /\ last' = [op |-> "build", builder |-> "buidPasswordVerifier",
                    outcome |-> outcome]
        /\ UNCHANGED rules

\* Mutant of CallVerifier: the call reverses the array in place before
\* mapping over it.
CallVerifier_reversing(input) ==
    /\ verifier.t = "verifier"
    /\ rules' = [i \in 1..Len(rules) |-> rules[Len(rules) + 1 - i]]
    /\ last' = [op |-> "verifier", builder |-> verifier.builder,
                input |-> input,
                outcome |-> VerifierBody(verifier, rules', input)]
    /\ UNCHANGED verifier

\* passwordVerifier(input)
CallVerifier(input) ==
    /\ verifier.t = "verifier"
    /\ last' = [op |-> "verifier", builder |-> verifier.builder,
                input |-> input,
                outcome |-> VerifierBody(verifier, rules, input)]
    /\ UNCHANGED <<rules, verifier>>

Next ==
    \/ \E e \in Entries : Push(e)
    \/ Pop
    \/ \E i \in 1..MaxRules, e \in Entries : SetAt(i, e)
    \/ \E input \in Inputs : CallVerifyPassword(input)
    \/ CallBuild
    \/ CallBuid
    \/ \E input \in Inputs : CallVerifier(input)

Spec == Init /\ [][Next]_vars

-----------------------------------------------------------------------------
\* The rule factory on its own: every criteria and reason argument, applied
\* to every input.

\* verify(criteria, reason)(input)
InvokeRule(criteria, reason, input) ==
    /\ last' = [op |-> "rule", rule |-> verify(criteria, reason),
                input |-> input,
                outcome |-> ApplyRule(verify(criteria, reason), input)]
    /\ UNCHANGED <<rules, verifier>>

NextRule ==
    \E criteria \in Criteria, reason \in ReasonArgs, input \in Inputs :
        InvokeRule(criteria, reason, input)

SpecRule == Init /\ [][NextRule]_vars

-----------------------------------------------------------------------------
\* Vocabulary of the properties.

\* The content of the array the verifier closure reads through its captured
\* binding `rules`.
AppliedRules == rules

AllFunctions(rs) == \A i \in 1..Len(rs) : TypeOf(rs[i]) = "function"

HasNonFunction(rs) == \E i \in 1..Len(rs) : TypeOf(rs[i]) /= "function"

RuleThrows(rule, input) == ApplyRule(rule, input).kind = "throw"

NoRuleThrows(rs, input) == \A i \in 1..Len(rs) : ~RuleThrows(rs[i], input)

SomeRuleThrows(rs, input) == \E i \in 1..Len(rs) : RuleThrows(rs[i], input)

\* The verdict of rule i of rs on input is Failed.
RuleFails(rs, i, input) ==
    LET o == ApplyRule(rs[i], input)
    IN  o.kind = "return" /\ ~o.value.passed

AllPass(rs, input) ==
    \A i \in 1..Len(rs) :
        LET o == ApplyRule(rs[i], input)
        IN  o.kind = "return" /\ o.value.passed

FailedIndices(rs, input) == {i \in 1..Len(rs) : RuleFails(rs, i, input)}

\* The index in rs of the k-th rule that fails on input.
NthFailed(rs, input, k) ==
    CHOOSE i \in FailedIndices(rs, input) :
        Cardinality({j \in FailedIndices(rs, input) : j <= i}) = k

NonEmptyString(v) == v.t = "string" /\ Len(v.s) > 0

Contains(s, sub) ==
    \E i \in 1..(Len(s) - Len(sub) + 1) : SubSeq(s, i, i + Len(sub) - 1) = sub

ReturnsArray(outcome) == outcome.kind = "return" /\ outcome.value.t = "array"

VerifierCalled == last.op = "verifier"

BuildVerifierCalled ==
    last.op = "verifier" /\ last.builder = "buildPasswordVerifier"

BuidVerifierCalled ==
    last.op = "verifier" /\ last.builder = "buidPasswordVerifier"

\* A call of the unprotected pipeline: verifyPassword(rules, input) or the
\* function buildPasswordVerifier returned.
PipelineCalled == last.op = "verifyPassword" \/ BuildVerifierCalled

\* const rules = [verify(... > 6, ...), verify(... toLowerCase ...)]
ExampleRules ==
    <<verify("minLength", MIN_LENGTH), verify("uppercase", MUST_UPPER)>>

RulesMustBeAFunction == Throw(Error("Error", <<"Rules must be a function">>))

-----------------------------------------------------------------------------
\* C1: for every rule set the builder accepts and every input, a call of the
\* returned verification function never throws.
C1_NeverThrows ==
    (VerifierCalled /\ AllFunctions(rules)) => last.outcome.kind = "return"

\* C2: when some rule of the set throws on the input, the verification
\* function returns the array holding exactly the one fallback reason
\* "Verification failed", a text that contains "fail".
C2_FallbackOnFault ==
    (VerifierCalled /\ AllFunctions(rules) /\ SomeRuleThrows(rules, last.input))
        => /\ last.outcome = Return(Arr(<<VERIFICATION_FAILED>>))
           /\ Contains(VERIFICATION_FAILED.s, <<"f", "a", "i", "l">>)

\* C3: a builder given a collection with an element that is not a function
\* throws "Rules must be a function" and binds no verification function; a
\* collection of functions only is accepted and the verifier is returned.
C3_EagerValidation ==
    [][last'.op = "build" =>
        IF HasNonFunction(rules)
        THEN /\ last'.outcome = RulesMustBeAFunction
             /\ verifier' = verifier
        ELSE /\ last'.outcome.kind = "return"
             /\ last'.outcome.value.t = "verifier"
             /\ verifier' = last'.outcome.value]_vars

C3_Witness ==
    /\ last.op = "build"
    /\ last.outcome.kind = "throw"
    /\ HasNonFunction(rules)
    /\ \E i \in 1..Len(rules) : TypeOf(rules[i]) = "function"

\* C4: for every rule set of rules built by verify and every input on which
\* every rule's predicate is true, the verification function returns the
\* empty array.
C4_AllPassEmpty ==
    (VerifierCalled /\ AllFunctions(rules) /\ AllPass(rules, last.input))
        => last.outcome = Return(Arr(<<>>))

\* C5: for every rule set of functions and every input on which no rule
\* throws, the unprotected verification function returns exactly the reasons
\* of the rules whose verdict is Failed, one per failed rule, in rule order.
C5_ReasonsInOrder ==
    (PipelineCalled /\ AllFunctions(rules) /\ NoRuleThrows(rules, last.input))
        => /\ ReturnsArray(last.outcome)
           /\ Len(last.outcome.value.items)
                = Cardinality(FailedIndices(rules, last.input))
           /\ \A k \in 1..Len(last.outcome.value.items) :
                last.outcome.value.items[k]
                    = rules[NthFailed(rules, last.input, k)].reason

C5_Witness ==
    /\ BuildVerifierCalled
    /\ rules = ExampleRules
    /\ last.outcome = Return(Arr(<<MIN_LENGTH, MUST_UPPER>>))

\* C6: with the two example rules in order, the verification function
\* returns both reasons in that order for "" and the empty array for
\* "Abcdef".
C6_ScenarioB ==
    (BuildVerifierCalled /\ rules = ExampleRules)
        => /\ last.input = EmptyString
                => last.outcome = Return(Arr(<<MIN_LENGTH, MUST_UPPER>>))
           /\ last.input = Abcdef
                => last.outcome = Return(Arr(<<>>))

\* C7: the rule verify(criteria, reason) applied to an input returns the
\* Passed verdict, with no reason, when criteria(input) is true, otherwise
\* the Failed verdict with exactly the given reason; what criteria throws
\* leaves the rule uncaught.
C7_RuleVerdict ==
    last.op = "rule" =>
        LET c == ApplyCriteria(last.rule.criteria, last.input)
        IN  IF c.kind = "throw"
            THEN last.outcome = c
            ELSE /\ last.outcome.kind = "return"
                 /\ IF c.value = Bool(TRUE)
                    THEN /\ last.outcome.value.passed = TRUE
                         /\ DOMAIN last.outcome.value = {"passed"}
                    ELSE /\ last.outcome.value.passed = FALSE
                         /\ last.outcome.value.reason = last.rule.reason

C7_Witness ==
    /\ last.op = "rule"
    /\ last.rule = verify("minLength", MIN_LENGTH)
    /\ last.input = Abcdef
    /\ last.outcome = Return([passed |-> FALSE, reason |-> MIN_LENGTH])

C9_NonEmptyReasons ==
    (PipelineCalled /\ AllFunctions(rules)) =>
        /\ \A i \in 1..Len(rules) :
            LET o == ApplyRule(rules[i], last.input)
            IN  (o.kind = "return" /\ ~o.value.passed)
                    => NonEmptyString(o.value.reason)
        /\ ReturnsArray(last.outcome) =>
            \A k \in 1..Len(last.outcome.value.items) :
                NonEmptyString(last.outcome.value.items[k])

\* C9 amended: a Failed verdict carries the reason argument verify was
\* given, unchecked: a non-empty string when that argument is one; every
\* element of a verification result is the reason argument of a rule of the
\* set that failed, so the elements are non-empty strings when the reason
\* arguments of the rules are.
C9_ReasonAsGiven ==
    (PipelineCalled /\ AllFunctions(rules)) =>
        /\ \A i \in 1..Len(rules) :
            LET o == ApplyRule(rules[i], last.input)
            IN  (o.kind = "return" /\ ~o.value.passed)
                    => /\ o.value.reason = rules[i].reason
                       /\ NonEmptyString(rules[i].reason)
                            => NonEmptyString(o.value.reason)
        /\ ReturnsArray(last.outcome) =>
            \A k \in 1..Len(last.outcome.value.items) :
                /\ \E i \in FailedIndices(rules, last.input) :
                        last.outcome.value.items[k] = rules[i].reason
                /\ (\A i \in 1..Len(rules) : NonEmptyString(rules[i].reason))
                        => NonEmptyString(last.outcome.value.items[k])

C9_Witness ==
    /\ PipelineCalled
    /\ AllFunctions(rules)
    /\ \A i \in 1..Len(rules) : NonEmptyString(rules[i].reason)
    /\ ReturnsArray(last.outcome)
    /\ Len(last.outcome.value.items) = 2

\* C10: on every rule set of functions and every input on which no rule
\* throws, the function buidPasswordVerifier returns gives the result the
\* function buildPasswordVerifier returns gives for the same rules.
C10_SameAsUnprotected ==
    (BuidVerifierCalled /\ AllFunctions(rules)
            /\ NoRuleThrows(rules, last.input))
        => last.outcome = BuildVerifierBody(rules, last.input)

====
